---------------------------- MODULE Spec2Model ----------------------------
(***************************************************************************)
(* Model of jira-csv: export_issues_with_specific_fields.py.               *)
(*                                                                         *)
(* Python values are tagged records:                                       *)
(*   None            [t |-> "none"]                                        *)
(*   str (content)   [t |-> "str",  s |-> "Region"]                        *)
(*   str (path)      [t |-> "path", c |-> <<"fields", ".", "cf">>]         *)
(*   int             [t |-> "int",  n |-> 7]                               *)
(*   dict            [t |-> "obj",  m |-> [key |-> value, ...]]            *)
(*   list            [t |-> "list", e |-> <<value, ...>>]                  *)
(* and a raised exception is the outcome [t |-> "raise", e |-> <name>].    *)
(* A path expression is a str whose characters matter (split, substring    *)
(* tests), so it is kept as the sequence of its characters, a run of       *)
(* letters and digits standing as one character.                           *)
(***************************************************************************)
EXTENDS Integers, Sequences, FiniteSets, TLC

VARIABLES
    pc,             \* export_issues: position in the export
    page_num,       \* export_issues: page_num
    issues_batch,   \* export_issues: issues_batch, the page last returned
    sink,           \* the rows written by writer.writerow, in order
    requests,       \* the startAt offsets passed to jira.search_issues, in order
    pageSizes,      \* len(issues_batch) of every page returned, in order
    reqFailed,      \* a jira.search_issues call has raised
    fields,         \* export_issues / get_field_values: fields
    path_to_fields, \* path_to_fields.json, entries in file order
    total,          \* number of issues matching the JQL
    issue,          \* the raw issue a resolver function is called on
    call,           \* the resolver function called and its field_path / fields
    result          \* what the call returned (or raised)

vars == <<pc, page_num, issues_batch, sink, requests, pageSizes, reqFailed,
          fields, path_to_fields, total, issue, call, result>>

-----------------------------------------------------------------------------
(* Python values *)

PyNone == [t |-> "none"]

PyStr(s) == [t |-> "str", s |-> s]

PyPath(c) == [t |-> "path", c |-> c]

PyInt(n) == [t |-> "int", n |-> n]

PyDict(m) == [t |-> "obj", m |-> m]

PyList(e) == [t |-> "list", e |-> e]

Raise(e) == [t |-> "raise", e |-> e]

IsRaise(v) == v.t = "raise"

\* bool(v): None, '', 0, {} and [] are false
Truthy(v) ==
    CASE v.t = "none" -> FALSE
      [] v.t = "str"  -> v.s # ""
      [] v.t = "path" -> v.c # <<>>
      [] v.t = "int"  -> v.n # 0
      [] v.t = "obj"  -> DOMAIN v.m # {}
      [] v.t = "list" -> v.e # <<>>

\* v.get(key): only a dict has .get; a missing key gives None
PyGet(v, key) ==
    IF v.t = "obj"
    THEN IF key \in DOMAIN v.m THEN v.m[key] ELSE PyNone
    ELSE Raise("AttributeError")

\* sep.join(vals): raises unless every item is a str
RECURSIVE JoinFrom(_, _, _)
JoinFrom(sep, vals, i) ==
    IF i > Len(vals) THEN ""
    ELSE IF i = Len(vals) THEN vals[i].s
    ELSE vals[i].s \o sep \o JoinFrom(sep, vals, i + 1)

Join(sep, vals) ==
    IF \E i \in 1..Len(vals) : vals[i].t # "str"
    THEN Raise("TypeError")
    ELSE PyStr(JoinFrom(sep, vals, 1))

-----------------------------------------------------------------------------
(* Path expressions *)

Dot == "."

Bar == "|"

\* sub in c, for a sub of one or two characters
Contains(c, sub) ==
    \E i \in 1..Len(c) :
        /\ i + Len(sub) - 1 <= Len(c)
        /\ SubSeq(c, i, i + Len(sub) - 1) = sub

\* c.split('.'): the runs between the dots, empty runs kept
RECURSIVE SplitFrom(_, _, _)
SplitFrom(c, i, cur) ==
    IF i > Len(c) THEN <<cur>>
    ELSE IF c[i] = Dot THEN <<cur>> \o SplitFrom(c, i + 1, <<>>)
    ELSE SplitFrom(c, i + 1, Append(cur, c[i]))

Split(c) == SplitFrom(c, 1, <<>>)

\* the characters of c as one string (a dict key)
RECURSIVE StrOf(_)
StrOf(c) == IF c = <<>> THEN "" ELSE Head(c) \o StrOf(Tail(c))

-----------------------------------------------------------------------------
(* The field resolvers *)

\* mutant of CascadingWalk: the options are read from the node that the
\* marked segment names
RECURSIVE CascadingWalkIntoMarked(_, _, _)
CascadingWalkIntoMarked(parts, i, nest) ==
    IF i > Len(parts) THEN PyList(<<>>)
    ELSE LET name == SelectSeq(parts[i], LAMBDA ch : ch # Bar)
             next == PyGet(nest, StrOf(name))
         IN  IF IsRaise(next) THEN next
             ELSE IF Contains(parts[i], <<Bar>>)
             THEN LET parent_option == PyGet(next, "value")
                      child_option == PyGet(next, "child")
                  IN  IF IsRaise(parent_option) THEN parent_option
                      ELSE IF Truthy(child_option)
                      THEN LET child_value == PyGet(child_option, "value")
                           IN  IF IsRaise(child_value) THEN child_value
                               ELSE PyList(<<parent_option, child_value>>)
                      ELSE PyList(<<parent_option>>)
             ELSE CascadingWalkIntoMarked(parts, i + 1, next)

\* lines 28-39: the walk of _get_value_for_cascading_select_field from
\* path part i with the node nest; gives the list values, or what it raised
RECURSIVE CascadingWalk(_, _, _)
CascadingWalk(parts, i, nest) ==
    IF i > Len(parts) THEN PyList(<<>>)
    ELSE IF Contains(parts[i], <<Bar>>)
    THEN LET parent_option == PyGet(nest, "value")
             child_option == PyGet(nest, "child")
         IN  IF IsRaise(parent_option) THEN parent_option
             ELSE IF Truthy(child_option)
             THEN LET child_value == PyGet(child_option, "value")
                  IN  IF IsRaise(child_value) THEN child_value
                      ELSE PyList(<<parent_option, child_value>>)
             ELSE PyList(<<parent_option>>)
    ELSE LET next == PyGet(nest, StrOf(parts[i]))
         IN  IF IsRaise(next) THEN next
             ELSE CascadingWalk(parts, i + 1, next)

\* mutant of _get_value_for_cascading_select_field: the child option is
\* dropped
CascadingParentOnly(field_path, issue_) ==
    IF ~Contains(field_path.c, <<Bar>>) THEN PyStr("")
    ELSE LET values == CascadingWalk(Split(field_path.c), 1, issue_)
         IN  IF IsRaise(values) THEN values
             ELSE IF Len(values.e) >= 1 THEN values.e[1]
             ELSE PyStr("")

_get_value_for_cascading_select_field(field_path, issue_) ==
    IF ~Contains(field_path.c, <<Bar>>) THEN PyStr("")
    ELSE LET values == CascadingWalk(Split(field_path.c), 1, issue_)
         IN  IF IsRaise(values) THEN values
             ELSE IF Len(values.e) = 2 THEN Join("-", values.e)
             ELSE IF Len(values.e) = 1 THEN values.e[1]
             ELSE PyStr("")

\* mutant of MultipleWalk: the values are collected from the last element to
\* the first
RECURSIVE MultipleWalkReversed(_, _, _)
MultipleWalkReversed(parts, i, nest) ==
    IF i > Len(parts) THEN Join("|", <<>>)
    ELSE IF nest.t = "list"
    THEN LET values == [k \in 1..Len(nest.e) |->
                           PyGet(nest.e[Len(nest.e) + 1 - k], "value")]
         IN  IF \E k \in 1..Len(values) : IsRaise(values[k])
             THEN Raise("AttributeError")
             ELSE Join("|", values)
    ELSE IF Truthy(nest)
    THEN LET next == PyGet(nest, StrOf(parts[i]))
         IN  IF IsRaise(next) THEN next
             ELSE MultipleWalkReversed(parts, i + 1, next)
    ELSE PyStr("")

\* lines 65-78: the walk of _get_value_for_multiple_choice_field from path
\* part i with the node nest; gives the returned str, or what it raised
RECURSIVE MultipleWalk(_, _, _)
MultipleWalk(parts, i, nest) ==
    IF i > Len(parts) THEN Join("|", <<>>)
    ELSE IF nest.t = "list"
    THEN LET values == [k \in 1..Len(nest.e) |-> PyGet(nest.e[k], "value")]
         IN  IF \E k \in 1..Len(values) : IsRaise(values[k])
             THEN Raise("AttributeError")
             ELSE Join("|", values)
    ELSE IF Truthy(nest)
    THEN LET next == PyGet(nest, StrOf(parts[i]))
         IN  IF IsRaise(next) THEN next
             ELSE MultipleWalk(parts, i + 1, next)
    ELSE PyStr("")

_get_value_for_multiple_choice_field(field_path, issue_) ==
    IF ~Contains(field_path.c, <<Dot, Dot>>) THEN PyStr("")
    ELSE MultipleWalk(Split(field_path.c), 1, issue_)

\* mutant of _construct_key: flatten_json's default separator
ConstructKeyUnderscore(previous_key, new_key) ==
    IF previous_key # "" THEN previous_key \o "_" \o new_key ELSE new_key

\* flatten_json: previous_key + separator + new_key, or new_key at the root
_construct_key(previous_key, new_key) ==
    IF previous_key # "" THEN previous_key \o Dot \o new_key ELSE new_key

\* flatten_json's _flatten(object_, key): the entries it adds to the flattened
\* dict; an empty or false object is taken as it is
RECURSIVE _flatten(_, _)
_flatten(object_, key) ==
    IF ~Truthy(object_) THEN key :> object_
    ELSE IF object_.t \in {"obj", "list"}
    THEN LET under ==
                 IF object_.t = "obj"
                 THEN {_flatten(object_.m[k], _construct_key(key, k)) :
                          k \in DOMAIN object_.m}
                 ELSE {_flatten(object_.e[i], _construct_key(key, ToString(i - 1))) :
                          i \in 1..Len(object_.e)}
             keys == UNION {DOMAIN f : f \in under}
         IN  [k \in keys |-> (CHOOSE f \in under : k \in DOMAIN f)[k]]
    ELSE key :> object_

\* flatten(issue, separator='.')
flatten(issue_) == PyDict(_flatten(issue_, ""))

\* mutant of TableGet: a field without entry is looked up under its own name
TableGetOrName(table, field) ==
    IF \E i \in 1..Len(table) : table[i].name = field
    THEN PyPath(table[CHOOSE i \in 1..Len(table) : table[i].name = field].path)
    ELSE PyPath(<<field>>)

\* path_to_fields.get(field): the path of the entry named field, or None
TableGet(table, field) ==
    IF \E i \in 1..Len(table) : table[i].name = field
    THEN PyPath(table[CHOOSE i \in 1..Len(table) : table[i].name = field].path)
    ELSE PyNone

\* lines 97-117: the loop of get_field_values from field i
RECURSIVE FieldLoop(_, _, _, _, _)
FieldLoop(issue_, fields_, table, i, filtered_field_values) ==
    IF i > Len(fields_) THEN PyList(filtered_field_values)
    ELSE LET field_path == TableGet(table, fields_[i])
             value ==
                 IF field_path.t # "path" THEN Raise("TypeError")
                 ELSE IF Contains(field_path.c, <<Dot, Dot>>)
                 THEN _get_value_for_multiple_choice_field(field_path, issue_)
                 ELSE IF Contains(field_path.c, <<Bar>>)
                 THEN _get_value_for_cascading_select_field(field_path, issue_)
                 ELSE PyGet(flatten(issue_), StrOf(field_path.c))
         IN  IF IsRaise(value) THEN value
             ELSE FieldLoop(issue_, fields_, table, i + 1,
                            Append(filtered_field_values, value))

\* mutant of get_field_values: the values come in the order of the entries
\* of path_to_fields.json
get_field_values_in_table_order(issue_, fields_, table) ==
    LET requested(e) == \E i \in 1..Len(fields_) : fields_[i] = e.name
        names == [j \in 1..Len(SelectSeq(table, requested)) |->
                     SelectSeq(table, requested)[j].name]
    IN  FieldLoop(issue_,
                  IF \A i \in 1..Len(fields_) :
                         \E j \in 1..Len(table) : table[j].name = fields_[i]
                  THEN names ELSE fields_,
                  table, 1, <<>>)

get_field_values(issue_, fields_, table) ==
    FieldLoop(issue_, fields_, table, 1, <<>>)

\* csv.writer: None is written as the empty string, a str as it is, anything
\* else as str(value)
CsvCell(v) ==
    CASE v.t = "none" -> ""
      [] v.t = "str"  -> v.s
      [] v.t = "int"  -> ToString(v.n)
      [] v.t = "obj"  -> IF DOMAIN v.m = {} THEN "{}" ELSE "{...}"
      [] v.t = "list" -> IF v.e = <<>> THEN "[]" ELSE "[...]"

\* writer.writerow(row): the cells of the written line
writerow(row) == [i \in 1..Len(row) |-> CsvCell(row[i])]

-----------------------------------------------------------------------------
(* path_to_fields.json and the issues *)

\* the entries of path_to_fields.json, in file order
PathTableEntries ==
    << [name |-> "key",        path |-> <<"key">>],
       [name |-> "points",     path |-> <<"fields", Dot, "points">>],
       [name |-> "parent",     path |-> <<"fields", Dot, "cf", Dot, "value">>],
       [name |-> "first",      path |-> <<"fields", Dot, "components", Dot, "0", Dot, "value">>],
       [name |-> "City",       path |-> <<"fields", Dot, "cf", Dot, "value", Bar, "child">>],
       [name |-> "CityMarked", path |-> <<"fields", Dot, "cf", Bar, Dot, "child">>],
       [name |-> "components", path |-> <<"fields", Dot, "components", Dot, Dot, "value">>] >>

Reverse(seq) == [i \in 1..Len(seq) |-> seq[Len(seq) + 1 - i]]

\* the same entries in either file order
PathTables == {PathTableEntries, Reverse(PathTableEntries)}

\* option values of the select lists
Options == {"UI", "Backend"}

\* a marker for a key that the dict does not have
Absent == [t |-> "absent"]

Opt(key, v) == IF v = Absent THEN <<>> ELSE key :> v

\* the shapes of a cascading select field: both options, the parent only,
\* empty, no option attributes, the child only, a child without value, null
CascadingNodes ==
    { PyDict([value |-> PyStr("Region"), child |-> PyDict([value |-> PyStr("East")])]),
      PyDict([value |-> PyStr("Region")]),
      PyDict([value |-> PyStr("Region"), child |-> PyNone]),
      PyDict(<<>>),
      PyDict([id |-> PyStr("10")]),
      PyDict([child |-> PyDict([value |-> PyStr("East")])]),
      PyDict([value |-> PyStr("Region"), child |-> PyDict([id |-> PyStr("11")])]),
      PyNone }

\* longest multiple select list
MaxListLen == 2

ListElements == {PyDict([value |-> PyStr(o)]) : o \in Options} \cup {PyDict([id |-> PyStr("12")])}

ListNodes ==
    {PyList(e) : e \in UNION {[1..n -> ListElements] : n \in 0..MaxListLen}} \cup {PyNone}

ScalarNodes == {PyInt(7), PyStr("n/a"), PyNone}

FieldsNodes ==
    { PyDict(Opt("cf", c) @@ Opt("components", l) @@ Opt("points", p)) :
        c \in CascadingNodes \cup {Absent},
        l \in ListNodes \cup {Absent},
        p \in ScalarNodes \cup {Absent} } \cup {PyNone, Absent}

\* the raw issues the resolvers are called on
Issues == {PyDict(("key" :> PyStr("TT-1")) @@ Opt("fields", f)) : f \in FieldsNodes}

\* the field lists get_field_values is called with
FieldLists ==
    { <<>>, <<"key">>, <<"points">>, <<"parent">>, <<"first">>, <<"City">>,
      <<"CityMarked">>, <<"components">>, <<"nonexistent">>,
      <<"key", "City", "components">>, <<"components", "points", "key", "first">>,
      <<"points", "nonexistent">> }

NoCall == [fn |-> "none", field_path |-> PyNone, fields |-> <<>>]

Calls ==
    {[fn |-> "cascading", field_path |-> PyPath(PathTableEntries[i].path), fields |-> <<>>] :
        i \in 1..Len(PathTableEntries)}
    \cup
    {[fn |-> "multiple", field_path |-> PyPath(PathTableEntries[i].path), fields |-> <<>>] :
        i \in 1..Len(PathTableEntries)}
    \cup
    {[fn |-> "get_field_values", field_path |-> PyNone, fields |-> fs] : fs \in FieldLists}

Pending == [t |-> "pending"]

-----------------------------------------------------------------------------
(* Calls of the resolver functions on one issue *)

InitResolve ==
    /\ pc = "INIT" /\ page_num = 0 /\ issues_batch = <<>> /\ sink = <<>>
    /\ requests = <<>> /\ pageSizes = <<>> /\ reqFailed = FALSE
    /\ fields = <<>> /\ total = 0
    /\ issue \in Issues
    /\ call \in Calls
    /\ path_to_fields \in PathTables
    /\ call.fn # "get_field_values" => path_to_fields = PathTableEntries
    /\ result = Pending

CallCascading ==
    /\ call.fn = "cascading" /\ result = Pending
    /\ result' = _get_value_for_cascading_select_field(call.field_path, issue)
    /\ UNCHANGED <<pc, page_num, issues_batch, sink, requests, pageSizes,
                   reqFailed, fields, path_to_fields, total, issue, call>>

CallMultiple ==
    /\ call.fn = "multiple" /\ result = Pending
    /\ result' = _get_value_for_multiple_choice_field(call.field_path, issue)
    /\ UNCHANGED <<pc, page_num, issues_batch, sink, requests, pageSizes,
                   reqFailed, fields, path_to_fields, total, issue, call>>

CallGetFieldValues ==
    /\ call.fn = "get_field_values" /\ result = Pending
    /\ result' = get_field_values(issue, call.fields, path_to_fields)
    /\ UNCHANGED <<pc, page_num, issues_batch, sink, requests, pageSizes,
                   reqFailed, fields, path_to_fields, total, issue, call>>

NextResolve == CallCascading \/ CallMultiple \/ CallGetFieldValues

SpecResolve == InitResolve /\ [][NextResolve]_vars

-----------------------------------------------------------------------------
(* export_issues *)

\* line 142
batch_size == 100

\* most full pages of a query
MaxPages == 2

\* the numbers of matching issues tried: around every multiple of the page size
Totals ==
    {n \in UNION {{k * batch_size - 1, k * batch_size, k * batch_size + 1} :
                     k \in 0..MaxPages} : n >= 0}

\* the fields of the issues of the project, one after the other
ProjectFields ==
    << PyDict([cf |-> PyDict([value |-> PyStr("Region"),
                              child |-> PyDict([value |-> PyStr("East")])]),
               components |-> PyList(<<PyDict([value |-> PyStr("UI")]),
                                       PyDict([value |-> PyStr("Backend")])>>),
               points |-> PyInt(7)]),
       PyDict([cf |-> PyDict([value |-> PyStr("Region")]),
               components |-> PyList(<<>>)]),
       PyDict([cf |-> PyNone, components |-> PyNone, points |-> PyNone]) >>

\* issue.raw of the issue at position pos (from 0) of the query's result list
IssueRaw(pos) ==
    PyDict([key |-> PyStr("TT-" \o ToString(pos)),
            fields |-> ProjectFields[(pos % Len(ProjectFields)) + 1]])

\* the field lists an export is run with
ExportFieldLists ==
    { <<"key">>, <<"key", "points", "components">>, <<"components", "first", "key">>,
      <<"key", "City">>, <<"key", "nonexistent">>, <<"nonexistent", "key">> }

\* jira.search_issues(jql, maxResults, startAt): the positions startAt ..
\* min(startAt + maxResults, n) - 1 of a result list of n issues
search_issues(maxResults, startAt, n) ==
    LET last == IF startAt + maxResults < n THEN startAt + maxResults ELSE n
    IN  [k \in 1..(IF last > startAt THEN last - startAt ELSE 0) |-> startAt + k - 1]

\* mutant of StartAt: the page number is passed as the offset
StartAtPageNumber(page) == page

\* line 157: startAt of the page requested
StartAt(page) == page * batch_size

\* mutant of IsLastPage: a full page ends the export too
IsLastPageOrFull(batch) == Len(batch) <= batch_size

\* line 168: the page is the last one
IsLastPage(batch) == Len(batch) < batch_size

\* lines 132-136 and 164: nothing catches an exception: it leaves export_issues
AfterRaise == "FAILED"

\* mutant of AfterRequestRaise: the request is made again
RetryAfterRequestRaise == "FETCHING_PAGE"

\* lines 154-159: nothing catches an exception of search_issues either
AfterRequestRaise == "FAILED"

\* lines 161-165 on the first n issues of batch: the rows written
RowsWritten(batch, n, fields_, table) ==
    [k \in 1..n |-> writerow(get_field_values(IssueRaw(batch[k]), fields_, table).e)]

\* lines 161-165: get_field_values raises on the issue at index k of batch
RaisesAt(batch, k, fields_, table) ==
    IsRaise(get_field_values(IssueRaw(batch[k]), fields_, table))

Init ==
    /\ pc = "INIT" /\ page_num = 0 /\ issues_batch = <<>> /\ sink = <<>>
    /\ requests = <<>> /\ pageSizes = <<>> /\ reqFailed = FALSE
    /\ fields \in ExportFieldLists
    /\ path_to_fields \in PathTables
    /\ total \in Totals
    /\ issue = PyNone /\ call = NoCall /\ result = Pending

\* lines 132-147: connect, open the output and write the header row.  The
\* source as it stands cannot get here: line 132 names credential while the
\* module is imported as credentials, and the string of line 152 is not closed.
\* The export is modelled as it runs once both are spelled as meant.
Start ==
    /\ pc = "INIT"
    /\ sink' = <<fields>>
    /\ page_num' = 0
    /\ pc' = "FETCHING_PAGE"
    /\ UNCHANGED <<issues_batch, requests, pageSizes, reqFailed, fields,
                   path_to_fields, total, issue, call, result>>

\* lines 132-136: the connection cannot be set up
StartRaises ==
    /\ pc = "INIT"
    /\ pc' = AfterRaise
    /\ UNCHANGED <<page_num, issues_batch, sink, requests, pageSizes, reqFailed,
                   fields, path_to_fields, total, issue, call, result>>

\* lines 154-159: the page is returned
FetchPage ==
    /\ pc = "FETCHING_PAGE"
    /\ requests' = Append(requests, StartAt(page_num))
    /\ issues_batch' = search_issues(batch_size, StartAt(page_num), total)
    /\ pageSizes' = Append(pageSizes, Len(issues_batch'))
    /\ pc' = "PROCESSING_PAGE"
    /\ UNCHANGED <<page_num, sink, reqFailed, fields, path_to_fields, total,
                   issue, call, result>>

\* lines 154-159: the request raises
FetchPageRaises ==
    /\ pc = "FETCHING_PAGE"
    /\ requests' = Append(requests, StartAt(page_num))
    /\ reqFailed' = TRUE
    /\ pc' = AfterRequestRaise
    /\ UNCHANGED <<page_num, issues_batch, sink, pageSizes, fields,
                   path_to_fields, total, issue, call, result>>

\* lines 161-174: write a row per issue of the page, then stop or go on
ProcessPage ==
    /\ pc = "PROCESSING_PAGE"
    /\ LET bad == {k \in 1..Len(issues_batch) :
                      RaisesAt(issues_batch, k, fields, path_to_fields)}
       IN  IF bad # {}
           THEN LET k == CHOOSE j \in bad : \A i \in bad : j <= i
                IN  /\ sink' = sink \o RowsWritten(issues_batch, k - 1, fields,
                                                   path_to_fields)
                    /\ pc' = AfterRaise
                    /\ page_num' = page_num
           ELSE /\ sink' = sink \o RowsWritten(issues_batch, Len(issues_batch),
                                               fields, path_to_fields)
                /\ IF IsLastPage(issues_batch)
                   THEN pc' = "DONE" /\ page_num' = page_num
                   ELSE pc' = "FETCHING_PAGE" /\ page_num' = page_num + 1
    /\ UNCHANGED <<issues_batch, requests, pageSizes, reqFailed, fields,
                   path_to_fields, total, issue, call, result>>

Next == Start \/ StartRaises \/ FetchPage \/ FetchPageRaises \/ ProcessPage

Spec == Init /\ [][Next]_vars

-----------------------------------------------------------------------------
(* What the properties are stated with *)

\* the node of the document found by following keys (dict keys, list
\* indices from 0); Absent when a key on the way is not there
RECURSIVE NodeAt(_, _)
NodeAt(node, keys) ==
    IF keys = <<>> THEN node
    ELSE IF node.t = "obj" /\ Head(keys) \in DOMAIN node.m
    THEN NodeAt(node.m[Head(keys)], Tail(keys))
    ELSE IF node.t = "list" /\ \E i \in 1..Len(node.e) : ToString(i - 1) = Head(keys)
    THEN NodeAt(node.e[CHOOSE i \in 1..Len(node.e) : ToString(i - 1) = Head(keys)],
                Tail(keys))
    ELSE Absent

\* the segments of a path expression, as keys
Segments(c) == [j \in 1..Len(Split(c)) |-> StrOf(Split(c)[j])]

\* the segments before the first one that is marked with | or is empty
\* (the second dot of ..), or all but the last when there is none
RECURSIVE WalkedFrom(_, _)
WalkedFrom(parts, i) ==
    IF i > Len(parts) THEN <<>>
    ELSE IF parts[i] = <<>> \/ Contains(parts[i], <<Bar>>) THEN <<>>
    ELSE <<StrOf(parts[i])>> \o WalkedFrom(parts, i + 1)

Walked(c) ==
    IF Contains(c, <<Bar>>) \/ Contains(c, <<Dot, Dot>>)
    THEN WalkedFrom(Split(c), 1)
    ELSE SubSeq(Segments(c), 1, Len(Segments(c)) - 1)

IsCascadingPath(c) == Contains(c, <<Bar>>) /\ ~Contains(c, <<Dot, Dot>>)

IsMultiplePath(c) == Contains(c, <<Dot, Dot>>)

IsScalarPath(c) == ~Contains(c, <<Bar>>) /\ ~Contains(c, <<Dot, Dot>>)

\* the path of a field name in path_to_fields.json, whatever the file order
PathOf(name) ==
    PathTableEntries[CHOOSE i \in 1..Len(PathTableEntries) :
                         PathTableEntries[i].name = name].path

Known(name) == \E i \in 1..Len(PathTableEntries) : PathTableEntries[i].name = name

HasStr(node, key) == node.t = "obj" /\ key \in DOMAIN node.m /\ node.m[key].t = "str"

Returned == result # Pending /\ ~IsRaise(result)

\* the path expression a finished call has resolved, when it resolved one
ResolvedOne ==
    /\ result # Pending
    /\ \/ call.fn = "cascading" /\ IsCascadingPath(call.field_path.c)
       \/ call.fn = "multiple" /\ IsMultiplePath(call.field_path.c)
       \/ /\ call.fn = "get_field_values" /\ Len(call.fields) = 1
          /\ Known(call.fields[1])

ResolvedPath ==
    IF call.fn = "get_field_values" THEN PathOf(call.fields[1]) ELSE call.field_path.c

\* the cell exported for the resolved field
ResolvedCell ==
    IF call.fn = "get_field_values" THEN writerow(result.e)[1] ELSE CsvCell(result)

-----------------------------------------------------------------------------
(* Properties of the resolvers, under SpecResolve *)

\* C2 (as claimed): in every strategy, when a node on the way of the path is
\* missing from the issue (absent or null), the resolution does not raise and
\* the field resolves to the empty string.
C2_MissingNodeGivesEmpty ==
    (/\ ResolvedOne
     /\ \E n \in 1..Len(Walked(ResolvedPath)) :
            NodeAt(issue, SubSeq(Walked(ResolvedPath), 1, n)) \in {Absent, PyNone})
    => (~IsRaise(result) /\ ResolvedCell = "")

BothOptions ==
    PyDict([value |-> PyStr("Region"), child |-> PyDict([value |-> PyStr("East")])])

\* C4 (as claimed): "fields.<name>|.child" on an issue whose fields.<name> is
\* {"value": P, "child": {"value": C}} resolves to "P-C".
C4_MarkedSegmentNamesNode ==
    (/\ call.fn = "cascading" /\ result # Pending
     /\ call.field_path.c = PathOf("CityMarked")
     /\ NodeAt(issue, <<"fields", "cf">>) = BothOptions)
    => result = PyStr("Region-East")

\* C4 (amended): the options are read from the node reached before the
\* marked segment, and the marked segment is not followed.  A path whose
\* marked segment comes after <name> ("fields.<name>.value|child") resolves
\* to "P-C" on that issue; "fields.<name>|.child" reads the options of the
\* fields object, which has none, and resolves to an empty cell.
C4_ReadBeforeMarkedSegment ==
    (call.fn = "cascading" /\ result # Pending)
    => /\ (/\ call.field_path.c = PathOf("City")
           /\ NodeAt(issue, <<"fields", "cf">>) = BothOptions)
          => result = PyStr("Region-East")
       /\ (/\ call.field_path.c = PathOf("CityMarked")
           /\ NodeAt(issue, <<"fields">>).t = "obj")
          => (~IsRaise(result) /\ CsvCell(result) = "")

C4_Witness ==
    /\ call.fn = "cascading" /\ call.field_path.c = PathOf("City")
    /\ NodeAt(issue, <<"fields", "cf">>) = BothOptions
    /\ NodeAt(issue, <<"fields", "components">>) = PyList(<<>>)
    /\ result = PyStr("Region-East")

\* the value of the first n elements, joined with |
RECURSIVE ValuesJoined(_, _)
ValuesJoined(e, n) ==
    IF n = 0 THEN ""
    ELSE IF n = 1 THEN e[1].m.value.s
    ELSE ValuesJoined(e, n - 1) \o "|" \o e[n].m.value.s

\* C5: for a multi-valued path whose walk reaches a list, the result is the
\* value of every element joined with | in document order; for an empty or
\* absent list it is the empty string.
C5_MultipleChoice ==
    (/\ call.fn = "multiple" /\ result # Pending
     /\ IsMultiplePath(call.field_path.c))
    => LET L == NodeAt(issue, Walked(call.field_path.c))
       IN  /\ (L.t = "list" /\ \A k \in 1..Len(L.e) : HasStr(L.e[k], "value"))
              => result = PyStr(ValuesJoined(L.e, Len(L.e)))
           /\ L \in {Absent, PyNone, PyList(<<>>)} => result = PyStr("")

C5_Witness ==
    /\ call.fn = "multiple"
    /\ NodeAt(issue, <<"fields", "components">>) =
           PyList(<<PyDict([value |-> PyStr("UI")]), PyDict([value |-> PyStr("Backend")])>>)
    /\ result = PyStr("UI|Backend")

\* str(v) of a str or an int
StringForm(v) == IF v.t = "str" THEN v.s ELSE ToString(v.n)

-----------------------------------------------------------------------------
(* Properties of export_issues, under Spec *)

\* the export has written every row of a page without an exception
PageProcessed == pageSizes # <<>> /\ pc \in {"FETCHING_PAGE", "DONE"}

\* C1: a page with fewer issues than the page size (an empty one too) ends
\* the export: no further request, and DONE once the page is written; a page
\* with as many issues as the page size is followed by exactly one further
\* request, at the next offset.
C1_StopsAtShortPage ==
    /\ [](\A i \in 1..Len(requests) - 1 : pageSizes[i] = batch_size)
    /\ [](pc = "DONE" =>
            /\ Len(pageSizes) = Len(requests)
            /\ pageSizes[Len(pageSizes)] < batch_size)
    /\ [][(pageSizes # <<>> /\ pageSizes[Len(pageSizes)] < batch_size)
            => requests' = requests]_vars
    /\ [][pc = "PROCESSING_PAGE" /\ pc' # "FAILED" =>
            IF Len(issues_batch) < batch_size
            THEN pc' = "DONE"
            ELSE pc' = "FETCHING_PAGE" /\ page_num' = Len(requests)]_vars
    /\ [][pc = "FETCHING_PAGE" =>
            requests' = Append(requests, page_num * batch_size)]_vars

C1_Witness ==
    /\ pc = "DONE"
    /\ Len(requests) = 3
    /\ pageSizes = <<batch_size, batch_size, 0>>

C8_RequestFailureAborts ==
    /\ [](reqFailed => pc = "FAILED")
    /\ [][reqFailed' => sink' = sink]_vars
    /\ [][reqFailed => requests' = requests]_vars

C8_Witness == reqFailed /\ Len(sink) > batch_size /\ Len(requests) = 2

\* what field name resolves to on the issue raw
ResolveField(name, raw) ==
    LET c == PathOf(name)
    IN  IF IsMultiplePath(c) THEN _get_value_for_multiple_choice_field(PyPath(c), raw)
        ELSE IF IsCascadingPath(c) THEN _get_value_for_cascading_select_field(PyPath(c), raw)
        ELSE PyGet(flatten(raw), StrOf(c))

\* C9: the header row is the requested field names in the requested order,
\* and every issue row has one entry per requested field name, the i-th
\* being what the i-th name resolves to, whatever the order of the entries
\* of path_to_fields.json.
C9_RowOrder ==
    sink # <<>> =>
        /\ sink[1] = fields
        /\ \A k \in 2..Len(sink) :
               /\ Len(sink[k]) = Len(fields)
               /\ \A i \in 1..Len(fields) :
                      sink[k][i] = CsvCell(ResolveField(fields[i], IssueRaw(k - 2)))

C9_Witness ==
    /\ pc = "DONE"
    /\ fields = <<"components", "first", "key">>
    /\ path_to_fields = Reverse(PathTableEntries)
    /\ Len(sink) > batch_size
    /\ sink[2] = <<"UI|Backend", "UI", "TT-0">>

\* the place of the key field in the requested fields
KeyIndex == CHOOSE i \in 1..Len(fields) : fields[i] = "key"

\* C10: the offsets requested are 0, B, 2B, ... in this order, and at DONE
\* the output is the header row followed by one row per matching issue, in
\* the order of the result list, after floor(N / B) + 1 requests.
C10_AllIssuesInOrder ==
    /\ \A i \in 1..Len(requests) : requests[i] = (i - 1) * batch_size
    /\ pc = "DONE" =>
          /\ Len(requests) = (total \div batch_size) + 1
          /\ Len(sink) = total + 1
          /\ sink[1] = fields
          /\ \A k \in 1..total : sink[k + 1][KeyIndex] = "TT-" \o ToString(k - 1)

C10_Witness ==
    /\ pc = "DONE"
    /\ total = batch_size + 1
    /\ Len(requests) = 2
    /\ Len(sink) = total + 1

=============================================================================
